---- MODULE Spec2Model ----
(***************************************************************************)
(* A model of the Universe of src/src/lib.rs: a toroidal cell grid held in *)
(* two buffers (cells[0], cells[1]) with a selector (cells_idx), advanced  *)
(* by tick, edited by toggle_cell and shown by render.                     *)
(*                                                                         *)
(* Buffers are sequences; the Rust index i of a Vec is position i + 1 of   *)
(* the sequence.  u32 arithmetic is done on base-256 digits, because the   *)
(* model checker's integers are 32-bit signed and cannot hold 2^32.        *)
(***************************************************************************)
EXTENDS Integers, Sequences, FiniteSets

VARIABLES
    width,       \* Universe.width  (u32)
    height,      \* Universe.height (u32)
    cells,       \* Universe.cells: <<cells[0], cells[1]>>
    cells_idx,   \* Universe.cells_idx: 0 or 1
    status,      \* "unconstructed", "ok", or "panicked" (the call trapped)
    alerts,      \* number of calls made to the host's alert()
    draws,       \* what the calls made to the host's random() returned, in order
    generation,  \* number of tick calls that have returned
    nops,        \* number of tick/toggle_cell calls made (bounds the model)
    last,        \* the last call: [op |-> name, args |-> arguments]
    ret,         \* what the last call returned, as a sequence
    requested,   \* the arguments Universe::new was called with
    loop         \* the loops of a tick in progress: [pc, row, col, writes,
                 \* before], pc "idle" when no tick is running

vars == <<width, height, cells, cells_idx, status, alerts, draws, generation,
          nops, last, ret, requested, loop>>

-----------------------------------------------------------------------------
(* Bounds of the model. *)

\* tick/toggle_cell calls per run of Spec
MaxOps == 3

\* seeds of the host's random source: 0 .. MaxSeed
MaxSeed == 1

\* tick/toggle_cell calls per run of SpecGlider
GliderOps == 6

\* tick/toggle_cell calls per run of SpecScan
ScanOps == 2

-----------------------------------------------------------------------------
(* enum Cell { Dead = 0, Alive = 1 } *)

Dead == "Dead"

Alive == "Alive"

Cell == {Dead, Alive}

\* `cell as u8`
as_u8(c) == IF c = Alive THEN 1 ELSE 0

\* Cell::toggle
toggle(c) == IF c = Dead THEN Alive ELSE Dead

-----------------------------------------------------------------------------
(* u32 arithmetic.  U32MulAdd(a, b, c) is a * b + c computed exactly on    *)
(* base-256 digits: .overflow says the exact value needs more than 32 bits *)
(* and .wrapped is the value modulo 2^32.  A wrapped value of 2^31 or more *)
(* does not fit the checker's integers and is given as -1: it is only ever *)
(* used as an index into a buffer far shorter than 2^31, where it is out   *)
(* of bounds either way.                                                   *)

Pow256(i) == CASE i = 0 -> 1 [] i = 1 -> 256 [] i = 2 -> 65536 [] OTHER -> 16777216

Digit(a, i) == IF i > 3 THEN 0 ELSE (a \div Pow256(i)) % 256

RECURSIVE ConvSum(_, _, _, _)
ConvSum(a, b, k, i) ==
    IF i > 3 \/ i > k THEN 0
    ELSE (IF k - i <= 3 THEN Digit(a, i) * Digit(b, k - i) ELSE 0)
         + ConvSum(a, b, k, i + 1)

RECURSIVE MulAddDigits(_, _, _, _, _)
MulAddDigits(a, b, c, k, carry) ==
    IF k > 7 THEN <<>>
    ELSE <<(ConvSum(a, b, k, 0) + Digit(c, k) + carry) % 256>>
         \o MulAddDigits(a, b, c, k + 1,
                         (ConvSum(a, b, k, 0) + Digit(c, k) + carry) \div 256)

\* of the eight digits d of an exact value: does it need more than 32 bits,
\* and its low 32 bits
U32OfDigits(d) ==
    [overflow |-> \E i \in 5..8 : d[i] # 0,
     wrapped  |-> IF d[4] >= 128 THEN -1
                  ELSE d[1] + 256 * d[2] + 65536 * d[3] + 16777216 * d[4]]

U32MulAdd(a, b, c) == U32OfDigits(MulAddDigits(a, b, c, 0, 0))

\* a * b + c needs more than 32 bits
u32_overflows(a, b, c) ==
    IF a < 32768 /\ b < 32768 /\ c < 32768 THEN FALSE
    ELSE U32MulAdd(a, b, c).overflow

\* a * b + c modulo 2^32; operands below 2^15 are multiplied directly
u32_wrapping(a, b, c) ==
    IF a < 32768 /\ b < 32768 /\ c < 32768 THEN a * b + c
    ELSE U32MulAdd(a, b, c).wrapped

-----------------------------------------------------------------------------
(* The host's Math.random(): draw i (counted from 0) of the source seeded  *)
(* with `seed`, in tenths, so a draw is in [0, 1) as a value of 0 .. 9.    *)
(* Seed 0 draws 0.5 every time.                                            *)

random(seed, i) == (5 + seed * (3 * i + (i \div 8) + 1)) % 10

\* the 0.5 of `random() < 0.5`, in tenths
Half == 5

-----------------------------------------------------------------------------
(* Universe::new *)

\* `width % 8 != 0 || height % 8 != 0`
not_multiple_of_8(w, h) == w % 8 # 0 \/ h % 8 # 0

\* a new that alerts and leaves width as requested
clamped_width_kept(w, h) == w

\* the value of `width` after the if of new
clamped_width(w, h) == IF not_multiple_of_8(w, h) THEN (w \div 8) * 8 ELSE w

\* the value of `height` after the if of new
clamped_height(w, h) == IF not_multiple_of_8(w, h) THEN (h \div 8) * 8 ELSE h

\* what the n calls of random() made by (0..n).map(...) return, in order
drawn(seed, n) == [i \in 1..n |-> random(seed, i - 1)]

\* a map whose closure is handed the draw after its own
random_cells_shifted(seed, n) ==
    [i \in 1..n |-> IF random(seed, i) < Half THEN Alive ELSE Dead]

\* (0..n).map(|_| if random() < 0.5 { Alive } else { Dead }).collect()
random_cells(seed, n) ==
    [i \in 1..n |-> IF random(seed, i - 1) < Half THEN Alive ELSE Dead]

\* vec![Cell::Alive; n]
cells_back(n) == [i \in 1..n |-> Alive]

-----------------------------------------------------------------------------
(* Accessors of the buffers. *)

\* a cells() that hands out the other buffer
current_is_back(cs, idx) == cs[2 - idx]

\* Universe::cells / Universe::cells_mut: the buffer the selector names
current(cs, idx) == cs[idx + 1]

\* Universe::get_index: (row * width + column) as usize.  With the
\* arguments of ToggleArgs and those tick passes, the sum exceeds u32 only
\* on a grid whose width * height wrapped, which only a build
\* without overflow checks constructs, so it wraps there too.
get_index(w, row, column) == u32_wrapping(row, w, column)

\* the bounds check of slice indexing
in_bounds(buf, idx) == idx >= 0 /\ idx < Len(buf)

\* a selector that is never flipped: `self.cells_idx ^ 0`
new_cells_idx_same(idx) == idx

\* `self.cells_idx ^ 1`
new_cells_idx(idx) == IF idx % 2 = 0 THEN idx + 1 ELSE idx - 1

-----------------------------------------------------------------------------
(* Universe::live_neighbor_count.  It is called by tick only, with         *)
(* row < height and column < width, so height - 1 and width - 1 are taken  *)
(* of positive numbers.                                                    *)

north_of(h, row) == IF row = 0 THEN h - 1 ELSE row - 1

south_of(h, row) == IF row = h - 1 THEN 0 ELSE row + 1

west_of(w, column) == IF column = 0 THEN w - 1 ELSE column - 1

east_of(w, column) == IF column = w - 1 THEN 0 ELSE column + 1

\* the indices nw, n, ne, w, e, sw, s, se, in the order they are read
neighbor_indices(w, h, row, column) ==
    << get_index(w, north_of(h, row), west_of(w, column)),
       get_index(w, north_of(h, row), column),
       get_index(w, north_of(h, row), east_of(w, column)),
       get_index(w, row, west_of(w, column)),
       get_index(w, row, east_of(w, column)),
       get_index(w, south_of(h, row), west_of(w, column)),
       get_index(w, south_of(h, row), column),
       get_index(w, south_of(h, row), east_of(w, column)) >>

\* the sum of eight `count += self.cells()[i] as u8`, from the i-th on
RECURSIVE count_from(_, _, _)
count_from(buf, idxs, i) ==
    IF i > 8 THEN 0 ELSE as_u8(buf[idxs[i] + 1]) + count_from(buf, idxs, i + 1)

\* the reads at idxs: one out of bounds panics, otherwise the count
count_at(buf, idxs) ==
    IF \E i \in 1..8 : ~in_bounds(buf, idxs[i])
    THEN [panicked |-> TRUE, count |-> 0]
    ELSE [panicked |-> FALSE, count |-> count_from(buf, idxs, 1)]

\* the call: it panics, or returns the count
live_neighbor_count(w, h, buf, row, column) ==
    count_at(buf, neighbor_indices(w, h, row, column))

-----------------------------------------------------------------------------
(* Universe::tick *)

\* a match whose second arm reads `x < 3`
next_cell_lt_3(cell, live_neighbors) ==
    CASE cell = Alive /\ live_neighbors < 2 -> Dead
      [] cell = Alive /\ live_neighbors >= 2 /\ live_neighbors < 3 -> Alive
      [] cell = Alive /\ live_neighbors >= 3 -> Dead
      [] cell = Dead /\ live_neighbors = 3 -> Alive
      [] OTHER -> cell

\* a match whose second arm reads `x <= 4`
next_cell_le_4(cell, live_neighbors) ==
    CASE cell = Alive /\ live_neighbors < 2 -> Dead
      [] cell = Alive /\ live_neighbors >= 2 /\ live_neighbors <= 4 -> Alive
      [] cell = Alive /\ live_neighbors > 4 -> Dead
      [] cell = Dead /\ live_neighbors = 3 -> Alive
      [] OTHER -> cell

\* a match whose fourth arm reads `(Cell::Dead, 2)`
next_cell_born_on_2(cell, live_neighbors) ==
    CASE cell = Alive /\ live_neighbors < 2 -> Dead
      [] cell = Alive /\ live_neighbors >= 2 /\ live_neighbors < 4 -> Alive
      [] cell = Alive /\ live_neighbors >= 4 -> Dead
      [] cell = Dead /\ live_neighbors = 2 -> Alive
      [] OTHER -> cell

\* the match on (cell, live_neighbors)
next_cell(cell, live_neighbors) ==
    CASE cell = Alive /\ live_neighbors < 2 -> Dead
      [] cell = Alive /\ live_neighbors >= 2 /\ live_neighbors < 4 -> Alive
      [] cell = Alive /\ live_neighbors >= 4 -> Dead
      [] cell = Dead /\ live_neighbors = 3 -> Alive
      [] OTHER -> cell

\* a body that writes only the cells that change state
tick_body_changes_only(cur, back, idx, live_neighbors) ==
    IF \/ ~in_bounds(cur, idx)
       \/ live_neighbors.panicked
       \/ ~in_bounds(back, idx)
    THEN [cells |-> back, panicked |-> TRUE]
    ELSE IF next_cell(cur[idx + 1], live_neighbors.count) = cur[idx + 1]
         THEN [cells |-> back, panicked |-> FALSE]
         ELSE [cells |-> [back EXCEPT ![idx + 1] =
                             next_cell(cur[idx + 1], live_neighbors.count)],
               panicked |-> FALSE]

\* a body that writes only the cells that are Alive in the next generation
tick_body_writes_alive_only(cur, back, idx, live_neighbors) ==
    IF \/ ~in_bounds(cur, idx)
       \/ live_neighbors.panicked
       \/ ~in_bounds(back, idx)
    THEN [cells |-> back, panicked |-> TRUE]
    ELSE IF next_cell(cur[idx + 1], live_neighbors.count) = Dead
         THEN [cells |-> back, panicked |-> FALSE]
         ELSE [cells |-> [back EXCEPT ![idx + 1] = Alive], panicked |-> FALSE]

\* the body of the loops at idx, given what live_neighbor_count returned:
\* the buffer cells[new_cells_idx] it leaves and whether it panicked
tick_body(cur, back, idx, live_neighbors) ==
    IF \/ ~in_bounds(cur, idx)
       \/ live_neighbors.panicked
       \/ ~in_bounds(back, idx)
    THEN [cells |-> back, panicked |-> TRUE]
    ELSE [cells |-> [back EXCEPT ![idx + 1] =
                        next_cell(cur[idx + 1], live_neighbors.count)],
          panicked |-> FALSE]

\* `for col in 0..width { ... }` of one row, from col on, given what the
\* bodies before left
RECURSIVE tick_row(_, _, _, _, _, _)
tick_row(w, h, cur, done, row, col) ==
    IF col >= w \/ done.panicked THEN done
    ELSE tick_row(w, h, cur,
                  tick_body(cur, done.cells, get_index(w, row, col),
                            live_neighbor_count(w, h, cur, row, col)),
                  row, col + 1)

\* `for row in 0..height { for col in 0..width { ... } }` from row on
RECURSIVE tick_loops(_, _, _, _, _)
tick_loops(w, h, cur, done, row) ==
    IF row >= h \/ done.panicked THEN done
    ELSE tick_loops(w, h, cur, tick_row(w, h, cur, done, row, 0), row + 1)

-----------------------------------------------------------------------------
(* impl fmt::Display for Universe, and Universe::render *)

\* "◼️", the symbol of a Dead cell
DeadSymbol == "BLACK_MEDIUM_SQUARE"

\* "◻️", the symbol of an Alive cell
AliveSymbol == "WHITE_MEDIUM_SQUARE"

\* what writeln!(f) writes
Newline == "\n"

symbol(cell) == IF cell = Dead THEN DeadSymbol ELSE AliveSymbol

\* slice.chunks(n), n > 0: consecutive pieces of n cells, the last one shorter
RECURSIVE chunks(_, _)
chunks(buf, n) ==
    IF Len(buf) = 0 THEN <<>>
    ELSE IF Len(buf) <= n THEN <<buf>>
    ELSE <<SubSeq(buf, 1, n)>> \o chunks(SubSeq(buf, n + 1, Len(buf)), n)

\* slice.chunks(n) panics when n = 0
chunks_panics(n) == n = 0

\* the text written for one line: a symbol per cell, then a newline
fmt_line(line) == [i \in 1..Len(line) |-> symbol(line[i])] \o <<Newline>>

RECURSIVE fmt_lines(_, _)
fmt_lines(lines, i) ==
    IF i > Len(lines) THEN <<>> ELSE fmt_line(lines[i]) \o fmt_lines(lines, i + 1)

\* Display::fmt: the text, as the sequence of symbols and newlines written
fmt(buf, w) == fmt_lines(chunks(buf, w), 1)

\* Universe::render: self.to_string(); it panics when chunks does
render(w, cs, cidx) ==
    IF chunks_panics(w) THEN [panicked |-> TRUE, text |-> <<>>]
    ELSE [panicked |-> FALSE, text |-> fmt(current(cs, cidx), w)]

-----------------------------------------------------------------------------
(* Universe::tick and Universe::toggle_cell as functions of the fields.    *)

\* the fields after the loops left `scan` of cells[idx]: the selector is
\* assigned after the loops, so not when they panicked
tick_end(cs, cidx, idx, scan) ==
    [cells     |-> [cs EXCEPT ![idx + 1] = scan.cells],
     cells_idx |-> IF scan.panicked THEN cidx ELSE idx,
     panicked  |-> scan.panicked]

\* tick: the loops read cells[cells_idx] and write cells[new_cells_idx]
tick(w, h, cs, cidx) ==
    tick_end(cs, cidx, new_cells_idx(cidx),
             tick_loops(w, h, current(cs, cidx),
                        [cells |-> cs[new_cells_idx(cidx) + 1], panicked |-> FALSE],
                        0))

\* a cells_mut that hands out the other buffer
toggled_other(cs, cidx, idx) == [cs EXCEPT ![2 - cidx][idx + 1] = toggle(@)]

\* `self.cells_mut()[idx].toggle()`
toggled(cs, cidx, idx) == [cs EXCEPT ![cidx + 1][idx + 1] = toggle(@)]

\* toggle_cell: the indexing panics when idx is out of bounds
toggle_at(cs, cidx, idx) ==
    IF in_bounds(current(cs, cidx), idx)
    THEN [cells |-> toggled(cs, cidx, idx), panicked |-> FALSE]
    ELSE [cells |-> cs, panicked |-> TRUE]

toggle_cell(w, cs, cidx, row, column) ==
    toggle_at(cs, cidx, get_index(w, row, column))

-----------------------------------------------------------------------------
(* Inputs of the calls. *)

\* (width, height) pairs passed to Universe::new
Requested ==
    { <<8, 8>>, <<20, 8>>, <<0, 0>>, <<0, 8>>, <<8, 0>>,
      <<5, 16>>, <<16, 5>>, <<536870920, 8>>, <<536870921, 8>> }

\* (row, column) pairs passed to toggle_cell
ToggleArgs ==
    { <<0, 0>>, <<1, 2>>, <<7, 7>>, <<0, 8>>, <<8, 0>> }

\* the (row, column) pairs of the five-cell seed
GliderSeed == { <<1, 2>>, <<2, 3>>, <<3, 1>>, <<3, 2>>, <<3, 3>> }

Call(op, args) == [op |-> op, args |-> args]

-----------------------------------------------------------------------------
(* The state before Universe::new is called. *)

\* no tick is running, and none has run
NoLoop ==
    [pc |-> "idle", row |-> 0, col |-> 0, writes |-> <<>>,
     before |-> << <<>>, <<>> >>]

Init ==
    /\ width = 0
    /\ height = 0
    /\ cells = << <<>>, <<>> >>
    /\ cells_idx = 0
    /\ status = "unconstructed"
    /\ alerts = 0
    /\ draws = <<>>
    /\ generation = 0
    /\ nops = 0
    /\ last = Call("none", <<>>)
    /\ ret = <<>>
    /\ requested = <<0, 0>>
    /\ loop = NoLoop

(* Universe::new(w, h), the host's random source seeded with `seed`.       *)
(* `width * height` overflows u32 for some arguments: a build with         *)
(* overflow checks panics there, one without wraps.                        *)
New(w, h, seed, overflow_checks) ==
    /\ status = "unconstructed"
    /\ \E cw \in {clamped_width(w, h)}, ch \in {clamped_height(w, h)} :
       \E size \in {u32_wrapping(cw, ch, 0)} :
        /\ requested' = <<w, h>>
        /\ alerts' = IF not_multiple_of_8(w, h) THEN alerts + 1 ELSE alerts
        /\ last' = Call("new", <<w, h>>)
        /\ ret' = <<>>
        /\ UNCHANGED <<generation, nops, loop>>
        /\ IF u32_overflows(cw, ch, 0) /\ overflow_checks
           THEN /\ status' = "panicked"
                /\ UNCHANGED <<width, height, cells, cells_idx, draws>>
           ELSE /\ status' = "ok"
                /\ width' = cw
                /\ height' = ch
                /\ cells' = << random_cells(seed, size),
                               cells_back(size) >>
                /\ draws' = draws \o drawn(seed, size)
                /\ cells_idx' = 0

(* Universe::tick *)
Tick(max) ==
    /\ status = "ok"
    /\ nops < max
    /\ \E done \in {tick(width, height, cells, cells_idx)} :
        /\ nops' = nops + 1
        /\ last' = Call("tick", <<>>)
        /\ ret' = <<>>
        /\ cells' = done.cells
        /\ cells_idx' = done.cells_idx
        /\ status' = IF done.panicked THEN "panicked" ELSE "ok"
        /\ generation' = IF done.panicked THEN generation ELSE generation + 1
        /\ UNCHANGED <<width, height, alerts, draws, requested, loop>>

(* Universe::toggle_cell(row, column) *)
ToggleCell(row, column, max) ==
    /\ status = "ok"
    /\ nops < max
    /\ \E done \in {toggle_cell(width, cells, cells_idx, row, column)} :
        /\ nops' = nops + 1
        /\ last' = Call("toggle_cell", <<row, column>>)
        /\ ret' = <<>>
        /\ cells' = done.cells
        /\ status' = IF done.panicked THEN "panicked" ELSE "ok"
        /\ UNCHANGED <<width, height, cells_idx, alerts, draws, generation, requested,
                       loop>>

(* Universe::render *)
Render ==
    /\ status = "ok"
    /\ \E done \in {render(width, cells, cells_idx)} :
        /\ last' = Call("render", <<>>)
        /\ ret' = done.text
        /\ status' = IF done.panicked THEN "panicked" ELSE "ok"
        /\ UNCHANGED <<width, height, cells, cells_idx, alerts, draws, generation,
                       nops, requested, loop>>

(* Universe::width *)
Width ==
    /\ status = "ok"
    /\ last' = Call("width", <<>>)
    /\ ret' = <<width>>
    /\ UNCHANGED <<width, height, cells, cells_idx, status, alerts, draws,
                   generation, nops, requested, loop>>

(* Universe::height *)
Height ==
    /\ status = "ok"
    /\ last' = Call("height", <<>>)
    /\ ret' = <<height>>
    /\ UNCHANGED <<width, height, cells, cells_idx, status, alerts, draws,
                   generation, nops, requested, loop>>

(* Universe::cells_ptr: the storage of the buffer the selector names *)
CellsPtr ==
    /\ status = "ok"
    /\ last' = Call("cells_ptr", <<>>)
    /\ ret' = <<cells_idx>>
    /\ UNCHANGED <<width, height, cells, cells_idx, status, alerts, draws,
                   generation, nops, requested, loop>>

Next ==
    \/ \E rq \in Requested, seed \in 0..MaxSeed, oc \in BOOLEAN :
          New(rq[1], rq[2], seed, oc)
    \/ Tick(MaxOps)
    \/ \E rc \in ToggleArgs : ToggleCell(rc[1], rc[2], MaxOps)
    \/ Render
    \/ Width
    \/ Height
    \/ CellsPtr

Spec == Init /\ [][Next]_vars

(* The scenario of the five-cell seed: an 8 x 8 universe whose draws are   *)
(* all 0.5, so all Dead, then toggle_cell on cells of the seed and tick.   *)
NextGlider ==
    \/ \E oc \in BOOLEAN : New(8, 8, 0, oc)
    \/ Tick(GliderOps)
    \/ \E rc \in GliderSeed : ToggleCell(rc[1], rc[2], GliderOps)

SpecGlider == Init /\ [][NextGlider]_vars

-----------------------------------------------------------------------------
(* Universe::tick, one step per execution of the loops' body.  loop.row    *)
(* and loop.col are the loop variables, loop.writes the indices the bodies *)
(* executed so far assigned at line 117, in order, and loop.before the     *)
(* two buffers as they were when the call began.                           *)

\* (width, height) pairs passed to Universe::new in SpecScan
ScanRequested == { <<8, 8>>, <<8, 16>>, <<0, 8>>, <<8, 0>>, <<536870920, 8>> }

\* (row, column) pairs passed to toggle_cell in SpecScan
ScanToggles == { <<0, 0>>, <<1, 2>> }

\* the loop variables after the body at (row, col) on a grid w wide
next_col(w, row, col) == IF col + 1 < w THEN col + 1 ELSE 0

next_row(w, row, col) == IF col + 1 < w THEN row ELSE row + 1

\* the loops have a body left to execute
loops_running(w, h, row) == row < h /\ w > 0

(* tick is called: `let new_cells_idx = self.cells_idx ^ 1`, and the loops *)
(* are entered                                                             *)
TickBegin(max) ==
    /\ status = "ok"
    /\ loop.pc = "idle"
    /\ nops < max
    /\ loop' = [pc |-> "loop", row |-> 0, col |-> 0, writes |-> <<>>,
                before |-> cells]
    /\ last' = Call("tick", <<>>)
    /\ ret' = <<>>
    /\ UNCHANGED <<width, height, cells, cells_idx, status, alerts, draws,
                   generation, nops, requested>>

(* one execution of the body, at (loop.row, loop.col) *)
TickStep ==
    /\ status = "ok"
    /\ loop.pc = "loop"
    /\ loops_running(width, height, loop.row)
    /\ \E idx \in {get_index(width, loop.row, loop.col)} :
       \E done \in {tick_body(current(cells, cells_idx),
                               cells[new_cells_idx(cells_idx) + 1], idx,
                               live_neighbor_count(width, height,
                                                   current(cells, cells_idx),
                                                   loop.row, loop.col))} :
        /\ cells' = [cells EXCEPT ![new_cells_idx(cells_idx) + 1] = done.cells]
        /\ status' = IF done.panicked THEN "panicked" ELSE "ok"
        /\ loop' = IF done.panicked THEN loop
                   ELSE [loop EXCEPT
                            !.row = next_row(width, loop.row, loop.col),
                            !.col = next_col(width, loop.row, loop.col),
                            !.writes = Append(@, idx)]
        /\ UNCHANGED <<width, height, cells_idx, alerts, draws, generation,
                       nops, last, ret, requested>>

(* the loops are over: `self.cells_idx = new_cells_idx`, and tick returns *)
TickEnd ==
    /\ status = "ok"
    /\ loop.pc = "loop"
    /\ ~loops_running(width, height, loop.row)
    /\ cells_idx' = new_cells_idx(cells_idx)
    /\ generation' = generation + 1
    /\ nops' = nops + 1
    /\ loop' = [loop EXCEPT !.pc = "idle"]
    /\ UNCHANGED <<width, height, cells, status, alerts, draws, last, ret,
                   requested>>

NextScan ==
    \/ \E rq \in ScanRequested, seed \in 0..MaxSeed, oc \in BOOLEAN :
          New(rq[1], rq[2], seed, oc)
    \/ TickBegin(ScanOps)
    \/ TickStep
    \/ TickEnd
    \/ \E rc \in ScanToggles : loop.pc = "idle" /\ ToggleCell(rc[1], rc[2], ScanOps)

SpecScan == Init /\ [][NextScan]_vars

\* tick is straight-line code and two counted loops: once called, it keeps
\* executing
SpecScanFair == SpecScan /\ WF_vars(TickStep) /\ WF_vars(TickEnd)

-----------------------------------------------------------------------------
(* What the properties below speak of. *)

\* Universe::new returned a Universe
Constructed == status = "ok" \/ (status = "panicked" /\ last.op # "new")

\* the current buffer and the scratch buffer
Cur == cells[cells_idx + 1]

Scratch == cells[2 - cells_idx]

\* the cell of buffer buf at (r, c) of a grid w wide
CellAt(buf, w, r, c) == buf[r * w + c + 1]

\* the (row, column) pairs of the Alive cells of buf, a grid w wide, h high
AliveSet(buf, w, h) ==
    { rc \in (0..(h - 1)) \X (0..(w - 1)) : CellAt(buf, w, rc[1], rc[2]) = Alive }

\* the eight (dr, dc) of a cell's neighbours
Offsets == ({-1, 0, 1} \X {-1, 0, 1}) \ { <<0, 0>> }

\* the number of Alive cells among the eight positions
\* ((r + dr) mod h, (c + dc) mod w)
ToroidalCount(buf, w, h, r, c) ==
    Cardinality({ d \in Offsets :
        CellAt(buf, w, (r + d[1] + h) % h, (c + d[2] + w) % w) = Alive })

\* the rule table
RuleTable(state, n) ==
    IF state = Alive
    THEN (IF n < 2 THEN Dead ELSE IF n = 2 \/ n = 3 THEN Alive ELSE Dead)
    ELSE (IF n = 3 THEN Alive ELSE Dead)

-----------------------------------------------------------------------------
(* C1: every constructed grid has width = floor(requested width / 8) * 8   *)
(* and height = floor(requested height / 8) * 8, both multiples of 8, and  *)
(* tick and toggle_cell never change them.                                 *)
C1_DimensionsClamped ==
    Constructed =>
        /\ width % 8 = 0
        /\ height % 8 = 0
        /\ width = (requested[1] \div 8) * 8
        /\ height = (requested[2] \div 8) * 8

\* a grid requested 20 wide, after toggle_cell and tick calls
C1_Witness ==
    /\ status = "ok"
    /\ requested = <<20, 8>>
    /\ width = 16
    /\ generation >= 1
    /\ nops > generation

(* C2: a tick that returns leaves in every cell (row, col) of the new      *)
(* current buffer the rule table's value for the cell's state and its      *)
(* toroidal live-neighbour count in the current buffer before the tick.    *)
C2_TickAppliesRuleTable ==
    [][ (last'.op = "tick" /\ status' = "ok") =>
            \A r \in 0..(height - 1), c \in 0..(width - 1) :
                CellAt(cells'[cells_idx' + 1], width, r, c) =
                    RuleTable(CellAt(Cur, width, r, c),
                              ToroidalCount(Cur, width, height, r, c)) ]_vars

\* a tick has returned with a birth, a death and a survival
C2_Witness ==
    /\ status = "ok"
    /\ last.op = "tick"
    /\ \E i \in 1..Len(Cur) : Cur[i] = Alive /\ Scratch[i] = Dead
    /\ \E i \in 1..Len(Cur) : Cur[i] = Dead /\ Scratch[i] = Alive
    /\ \E i \in 1..Len(Cur) : Cur[i] = Alive /\ Scratch[i] = Alive

-----------------------------------------------------------------------------
\* the in-range (row, column) pairs the properties range over: all of them
\* on a grid of at most 16 x 16, those of ToggleArgs on a larger one
InRange(w, h) ==
    IF w <= 16 /\ h <= 16 THEN (0..(h - 1)) \X (0..(w - 1))
    ELSE { rc \in ToggleArgs : rc[1] < h /\ rc[2] < w }

\* the other state of a cell
Flipped(state) == IF state = Alive THEN Dead ELSE Alive

\* live_neighbor_count(row, col) returns the toroidal count at every rc of S
CountsToroidal(S) ==
    \A rc \in S :
        /\ ~live_neighbor_count(width, height, Cur, rc[1], rc[2]).panicked
        /\ live_neighbor_count(width, height, Cur, rc[1], rc[2]).count
              = ToroidalCount(Cur, width, height, rc[1], rc[2])
        /\ live_neighbor_count(width, height, Cur, rc[1], rc[2]).count \in 0..8

\* on an 8 x 8 grid with only (0, 0) alive, the counts at (7, 7) and (0, 1)
CountsOfCorner ==
    (width = 8 /\ height = 8 /\ AliveSet(Cur, 8, 8) = { <<0, 0>> }) =>
        /\ live_neighbor_count(8, 8, Cur, 7, 7) = [panicked |-> FALSE, count |-> 1]
        /\ live_neighbor_count(8, 8, Cur, 0, 1) = [panicked |-> FALSE, count |-> 1]

(* C3: on every grid with positive dimensions, live_neighbor_count of every *)
(* in-range (row, col) is the number of Alive cells among the eight         *)
(* positions ((row + dr) mod height, (col + dc) mod width) of the current   *)
(* buffer, a number in 0 .. 8; on an 8 x 8 grid with only (0, 0) alive it   *)
(* is 1 at (7, 7) and at (0, 1).                                            *)
C3_NeighborCountToroidal ==
    (status = "ok" /\ width > 0 /\ height > 0) =>
        (CountsToroidal(InRange(width, height)) /\ CountsOfCorner)

\* C3 on the grids whose width * height fits u32
C3_NeighborCountToroidalNoWrap ==
    (status = "ok" /\ width > 0 /\ height > 0 /\ ~u32_overflows(width, height, 0)) =>
        (CountsToroidal(InRange(width, height)) /\ CountsOfCorner)

\* an 8 x 8 grid with only (0, 0) alive
C3_Witness ==
    status = "ok" /\ width = 8 /\ height = 8 /\ AliveSet(Cur, 8, 8) = { <<0, 0>> }

\* toggle_cell(r, c) has flipped the cell at r * width + c of the current
\* buffer and no other, and a second toggle_cell(r, c) restores the buffers
FlipsOneCell(r, c) ==
    /\ status' = "ok"
    /\ Len(cells'[cells_idx' + 1]) = Len(Cur)
    /\ \A i \in 1..Len(Cur) :
          cells'[cells_idx' + 1][i] =
              IF i = r * width + c + 1 THEN Flipped(Cur[i]) ELSE Cur[i]
    /\ toggle_cell(width', cells', cells_idx', r, c) = [cells |-> cells, panicked |-> FALSE]

(* C4: toggle_cell(r, c) with r < height and c < width flips the cell of   *)
(* the current buffer at index r * width + c and leaves every other cell   *)
(* of it unchanged; toggle_cell(r, c) twice restores the grid.             *)
C4_ToggleFlipsOneCell ==
    [][ (last'.op = "toggle_cell" /\ last'.args[1] < height /\ last'.args[2] < width)
            => FlipsOneCell(last'.args[1], last'.args[2]) ]_vars

\* C4 on the grids whose width * height fits u32
C4_ToggleFlipsOneCellNoWrap ==
    [][ (/\ last'.op = "toggle_cell"
         /\ last'.args[1] < height
         /\ last'.args[2] < width
         /\ ~u32_overflows(width, height, 0))
            => FlipsOneCell(last'.args[1], last'.args[2]) ]_vars

(* C5: toggle_cell leaves the scratch buffer, the selector, width and      *)
(* height unchanged and does not advance the generation.                   *)
C5_ToggleFrame ==
    [][ last'.op = "toggle_cell" =>
            /\ cells'[2 - cells_idx] = Scratch
            /\ cells_idx' = cells_idx
            /\ width' = width
            /\ height' = height
            /\ generation' = generation ]_vars

\* a toggle_cell that returned, after a tick, the buffers differing
C5_Witness ==
    /\ status = "ok"
    /\ last.op = "toggle_cell"
    /\ generation >= 1
    /\ Scratch # Cur

-----------------------------------------------------------------------------
\* a Universe with the current buffer of this one, selector sel, and a
\* scratch buffer filled with `fill`
Other(sel, fill) ==
    IF sel = 0 THEN << Cur, [i \in 1..Len(Cur) |-> fill] >>
    ELSE << [i \in 1..Len(Cur) |-> fill], Cur >>

\* two ticks ended alike: both panicked, or both returned and left the same
\* current buffer
SameTick(a, b) ==
    /\ a.panicked = b.panicked
    /\ ~a.panicked => a.cells[a.cells_idx + 1] = b.cells[b.cells_idx + 1]

(* C6: tick is a function of the dimensions and the current buffer: every  *)
(* tick step, whatever the scratch buffer, the selector and the history of *)
(* the state it is taken in, ends as a tick does of a Universe of the same *)
(* dimensions and current buffer with either selector and a scratch buffer *)
(* of all Dead or of all Alive.                                            *)
C6_TickDeterministic ==
    [][ last'.op = "tick" =>
            \A sel \in {0, 1}, fill \in Cell :
                SameTick([cells |-> cells', cells_idx |-> cells_idx',
                          panicked |-> status' = "panicked"],
                         tick(width, height, Other(sel, fill), sel)) ]_vars

\* a second tick has returned, a toggle_cell before it: it was taken with
\* selector 1 and a scratch buffer holding an earlier generation
C6_Witness ==
    /\ status = "ok"
    /\ generation = 2
    /\ nops = 3
    /\ last.op = "tick"
    /\ \E i \in 1..Len(Cur) : Cur[i] = Alive
    /\ \E i \in 1..Len(Cur) : Cur[i] = Dead

-----------------------------------------------------------------------------
\* the number of newlines of a text
LineCount(text) == Cardinality({ i \in 1..Len(text) : text[i] = Newline })

\* text is h lines of w symbols and a newline, the symbol at line r,
\* position c that of Dead iff buf holds Dead at r * w + c
IsPicture(text, buf, w, h) ==
    /\ LineCount(text) = h
    /\ Len(text) = h * (w + 1)
    /\ \A r \in 0..(h - 1) :
          /\ text[r * (w + 1) + w + 1] = Newline
          /\ \A c \in 0..(w - 1) :
                /\ text[r * (w + 1) + c + 1] \in {DeadSymbol, AliveSymbol}
                /\ text[r * (w + 1) + c + 1] = DeadSymbol
                      <=> CellAt(buf, w, r, c) = Dead

(* C7: on every constructed grid, in every reachable state, render returns *)
(* height() newline-terminated lines of width() symbols, row 0 first, the  *)
(* symbol at line r, position c being that of Dead iff the current buffer  *)
(* holds Dead at r * width + c.                                            *)
C7_RenderShape ==
    last.op = "render" => (status = "ok" /\ IsPicture(ret, Cur, width, height))

\* C7 on the grids with width > 0 whose width * height fits u32
C7_RenderShapeWidePositive ==
    (last.op = "render" /\ width > 0 /\ ~u32_overflows(width, height, 0)) =>
        (status = "ok" /\ IsPicture(ret, Cur, width, height))

-----------------------------------------------------------------------------
\* the Alive cells the rule table gives for the five-cell seed
GliderNext == { <<2, 1>>, <<2, 3>>, <<3, 2>>, <<3, 3>>, <<4, 2>> }

(* C8: on an 8 x 8 grid whose current buffer holds exactly the five-cell   *)
(* seed (1,2), (2,3), (3,1), (3,2), (3,3), set by toggle_cell from all     *)
(* Dead, one tick leaves exactly (2,1), (2,3), (3,2), (3,3), (4,2) Alive.  *)
C8_GliderStep ==
    [][ (/\ width = 8
         /\ height = 8
         /\ generation = 0
         /\ AliveSet(Cur, 8, 8) = GliderSeed
         /\ last'.op = "tick")
            => (/\ status' = "ok"
                /\ generation' = 1
                /\ AliveSet(cells'[cells_idx' + 1], 8, 8) = GliderNext) ]_vars

\* the tick of the scenario has returned: five toggle_cell calls, one tick
C8_Witness ==
    /\ status = "ok"
    /\ last.op = "tick"
    /\ generation = 1
    /\ nops = 6
    /\ AliveSet(Scratch, 8, 8) = GliderSeed
    /\ AliveSet(Cur, 8, 8) = GliderNext

-----------------------------------------------------------------------------
(* C9: the selector is 0 or 1 and equals the number of ticks that returned *)
(* modulo 2; only a tick changes it, each tick that returns flips it, and  *)
(* toggle_cell, render, width, height and cells_ptr leave it alone.        *)
C9_SelectorIsGenerationParity ==
    /\ [](cells_idx \in {0, 1} /\ cells_idx = generation % 2)
    /\ [][ /\ cells_idx' # cells_idx => last'.op = "tick"
           /\ (last'.op = "tick" /\ status' = "ok") => cells_idx' = 1 - cells_idx
           /\ last'.op \in {"toggle_cell", "render", "width", "height", "cells_ptr"}
                 => cells_idx' = cells_idx ]_vars

\* two ticks have returned, then cells_ptr
C9_Witness ==
    status = "ok" /\ generation = 2 /\ cells_idx = 0 /\ last.op = "cells_ptr"

-----------------------------------------------------------------------------
(* C10: a grid whose width or height is 0 is legal: it is constructed with *)
(* empty buffers, and every tick and render on it returns, leaving the     *)
(* grid empty.                                                             *)
C10_ZeroDimensionsLegal ==
    (/\ Constructed
     /\ width = 0 \/ height = 0
     /\ last.op \in {"new", "tick", "render"})
        => (status = "ok" /\ Len(cells[1]) = 0 /\ Len(cells[2]) = 0)

\* C10 on the grids with width > 0 and height = 0
C10_ZeroHeightLegal ==
    (/\ Constructed
     /\ width > 0 /\ height = 0
     /\ last.op \in {"new", "tick", "render"})
        => (status = "ok" /\ Len(cells[1]) = 0 /\ Len(cells[2]) = 0)

-----------------------------------------------------------------------------
(* C11: every toggle_cell(row, column) with row >= height or               *)
(* column >= width aborts, and no cell of either buffer is modified.       *)
C11_OutOfRangeToggleAborts ==
    [][ (/\ last'.op = "toggle_cell"
         /\ last'.args[1] >= height \/ last'.args[2] >= width)
            => (status' = "panicked" /\ cells' = cells) ]_vars

\* C11 for the calls whose row * width + column is outside the buffer
C11_OutOfBufferToggleAborts ==
    [][ (/\ last'.op = "toggle_cell"
         /\ ~in_bounds(Cur, get_index(width, last'.args[1], last'.args[2])))
            => (status' = "panicked" /\ cells' = cells) ]_vars

-----------------------------------------------------------------------------
\* the arguments (w, h) of Universe::new call for the warning
Unaligned(w, h) == w % 8 # 0 \/ h % 8 # 0

\* Universe::new(w, h) warns once iff (w, h) is unaligned, and then stores
\* the dimensions floor-divided by 8 and multiplied by 8; it stores aligned
\* dimensions as they are
WarnsAndClamps(w, h) ==
    /\ alerts' = alerts + (IF Unaligned(w, h) THEN 1 ELSE 0)
    /\ status' = "ok" =>
          /\ width' = (IF Unaligned(w, h) THEN (w \div 8) * 8 ELSE w)
          /\ height' = (IF Unaligned(w, h) THEN (h \div 8) * 8 ELSE h)

(* C12: Universe::new(w, h) emits the warning exactly once when w or h is  *)
(* not a multiple of 8 and then stores both dimensions floor-divided by 8  *)
(* and multiplied by 8, and it returns a grid; when both are multiples of  *)
(* 8 it emits no warning and stores them unchanged.                        *)
C12_WarnsIffUnaligned ==
    [][ last'.op = "new" =>
            /\ WarnsAndClamps(last'.args[1], last'.args[2])
            /\ Unaligned(last'.args[1], last'.args[2]) => status' = "ok" ]_vars

\* C12 without the promise that an unaligned request returns a grid
C12_WarnsIffUnalignedWhenReturned ==
    [][ last'.op = "new" => WarnsAndClamps(last'.args[1], last'.args[2]) ]_vars

-----------------------------------------------------------------------------
\* a tick is in progress
InTick == loop.pc = "loop"

\* this step is an execution of the loops' body that did not panic
BodyStep == InTick /\ status' = "ok" /\ Len(loop'.writes) = Len(loop.writes) + 1

\* this step is the return of a tick
ReturnStep == InTick /\ loop'.pc = "idle"

\* the linear index of the body about to execute
BodyIdx == loop.row * width + loop.col

\* the loops of TickStep and TickEnd leave what tick leaves
TickLoopsAgree ==
    [][ /\ ReturnStep =>
              tick(width, height, loop.before, cells_idx)
                  = [cells |-> cells', cells_idx |-> cells_idx', panicked |-> FALSE]
        /\ (InTick /\ status' = "panicked") =>
              tick(width, height, loop.before, cells_idx).panicked ]_vars

(* C13: while a tick is in progress the buffer that was current when it    *)
(* began is unwritten and the selector is as it was; every body writes the *)
(* other buffer, at the linear index of its own cell and nowhere else, the *)
(* rule's value for the cell and its neighbours as they were when the tick *)
(* began; the selector is flipped only after width * height writes; and on *)
(* return the scratch buffer holds the previous generation.                *)
C13_DoubleBufferDiscipline ==
    /\ [](InTick => Cur = loop.before[cells_idx + 1])
    /\ [][ BodyStep =>
              /\ cells'[cells_idx + 1] = Cur
              /\ cells_idx' = cells_idx
              /\ loop'.writes[Len(loop'.writes)] = BodyIdx
              /\ \A i \in 1..Len(Scratch) :
                    cells'[2 - cells_idx][i] =
                        IF i = BodyIdx + 1
                        THEN RuleTable(loop.before[cells_idx + 1][i],
                                       ToroidalCount(loop.before[cells_idx + 1],
                                                     width, height, loop.row, loop.col))
                        ELSE Scratch[i] ]_vars
    /\ [][ cells_idx' # cells_idx =>
              /\ ReturnStep
              /\ Len(loop.writes) = width * height
              /\ cells'[2 - cells_idx'] = loop.before[cells_idx + 1] ]_vars

\* a second tick is half way: a body has written a cell that changes state,
\* and the body about to execute has that cell as its west neighbour
C13_Witness ==
    /\ InTick
    /\ status = "ok"
    /\ generation = 1
    /\ loop.col > 0
    /\ Len(loop.writes) >= 30
    /\ Scratch[BodyIdx] # Cur[BodyIdx]

-----------------------------------------------------------------------------
\* the buffers of the Universe that the same calls leave when line 68
\* pre-fills the secondary buffer with `fill`: before the first tick returns
\* the secondary buffer holds `fill` everywhere; from then on both buffers
\* are those of this Universe, which the first conjuncts of C14 establish
WithPrefill(fill) ==
    IF generation = 0
    THEN << cells[1], [i \in 1..Len(cells[2]) |-> fill] >>
    ELSE cells

\* the call ended with outcome `done` leaves the buffers of this step, or
\* panics as this step does
SameOutcome(done) ==
    /\ done.panicked = (status' = "panicked")
    /\ ~done.panicked => done.cells = cells'

(* C14: whatever value the secondary buffer is pre-filled with, after      *)
(* construction and any sequence of tick, toggle_cell, render and          *)
(* cells_ptr calls the current buffer has the same contents, every call    *)
(* returns or panics alike, and render returns the same text: the buffer   *)
(* pre-filled is not the current one until a tick has written all of it.   *)
C14_PrefillNeverObserved ==
    /\ [](\A fill \in Cell :
             status = "ok" => current(WithPrefill(fill), cells_idx) = Cur)
    /\ [][ \A fill \in Cell :
            /\ (last'.op = "tick" /\ generation = 0) =>
                  /\ SameOutcome(tick(width, height, WithPrefill(fill), cells_idx))
                  /\ status' = "ok" =>
                        tick(width, height, WithPrefill(fill), cells_idx).cells_idx
                            = cells_idx'
            /\ last'.op = "toggle_cell" =>
                  /\ toggle_cell(width, WithPrefill(fill), cells_idx,
                                 last'.args[1], last'.args[2]).panicked
                        = (status' = "panicked")
                  /\ current(toggle_cell(width, WithPrefill(fill), cells_idx,
                                         last'.args[1], last'.args[2]).cells,
                             cells_idx) = cells'[cells_idx' + 1]
            /\ last'.op = "render" =>
                  render(width, WithPrefill(fill), cells_idx)
                      = [panicked |-> status' = "panicked", text |-> ret']
            /\ last'.op = "cells_ptr" =>
                  current(WithPrefill(fill), ret'[1]) = Cur ]_vars

\* toggle_cell, tick, toggle_cell, then render: the buffer that was
\* pre-filled is the current one, and it holds a Dead cell
C14_Witness ==
    /\ status = "ok"
    /\ last.op = "render"
    /\ generation = 1
    /\ nops = 3
    /\ cells_idx = 1
    /\ \E i \in 1..Len(Cur) : Cur[i] = Dead
    /\ \E i \in 1..Len(Cur) : Cur[i] = Alive

-----------------------------------------------------------------------------
\* n is the product w * h (a product below 2^31)
ProductIs(w, h, n) == ~u32_overflows(w, h, 0) /\ u32_wrapping(w, h, 0) = n

\* Universe::new has made n calls of random(), and cell i of the primary
\* buffer is Alive iff the i-th of them returned less than 0.5; the
\* secondary buffer is n cells, all Alive; the selector is 0
BuiltFromDraws(n) ==
    /\ draws = <<>>
    /\ Len(draws') = n
    /\ Len(cells'[1]) = n
    /\ \A i \in 1..n : cells'[1][i] = (IF draws'[i] < Half THEN Alive ELSE Dead)
    /\ cells'[2] = [i \in 1..n |-> Alive]
    /\ cells_idx' = 0
    /\ cells'[cells_idx' + 1] = cells'[1]

-----------------------------------------------------------------------------
(* C16: for every requested width and height, after any sequence of calls  *)
(* both buffers have the same length, the product of the clamped width and *)
(* height: the u32 multiplication that sizes them never wraps.             *)
C16_BufferLengthIsProduct ==
    Constructed =>
        /\ Len(cells[1]) = Len(cells[2])
        /\ ProductIs(width, height, Len(cells[1]))

\* C16 with the length the u32 multiplication gives
C16_BufferLengthAsComputed ==
    Constructed =>
        /\ Len(cells[1]) = Len(cells[2])
        /\ Len(cells[1]) = u32_wrapping(width, height, 0)

-----------------------------------------------------------------------------
\* the body of tick's loops at (r, c) indexes both buffers inside their
\* bounds, at the cell's own index and at the eight neighbours' indices,
\* and the neighbours' rows and columns are rows and columns of the grid
SafeAt(r, c) ==
    /\ in_bounds(Cur, get_index(width, r, c))
    /\ in_bounds(Scratch, get_index(width, r, c))
    /\ north_of(height, r) \in 0..(height - 1)
    /\ south_of(height, r) \in 0..(height - 1)
    /\ west_of(width, c) \in 0..(width - 1)
    /\ east_of(width, c) \in 0..(width - 1)
    /\ \A k \in 1..8 : in_bounds(Cur, neighbor_indices(width, height, r, c)[k])

\* the states in which the body at (loop.row, loop.col) is about to execute
AtBody == InTick /\ status = "ok" /\ loops_running(width, height, loop.row)

(* C17: during every tick, and during every toggle_cell(row, column) with  *)
(* row < height and column < width, every linear index used to read or     *)
(* write a buffer, the cell's own and its eight neighbours', is inside the *)
(* buffer of `width * height` cells, and every neighbour row and column    *)
(* is in 0 .. height - 1 and 0 .. width - 1.                               *)
C17_IndexSafety ==
    /\ AtBody => SafeAt(loop.row, loop.col)
    /\ (status = "ok" /\ ~InTick) =>
          \A rc \in ScanToggles :
              (rc[1] < height /\ rc[2] < width) =>
                  in_bounds(Cur, get_index(width, rc[1], rc[2]))

\* C17 on the grids whose width * height fits u32
C17_IndexSafetyNoWrap ==
    ~u32_overflows(width, height, 0) => C17_IndexSafety

-----------------------------------------------------------------------------
\* the indices 0, 1, ..., n - 1 in order
RowMajor(n) == [i \in 1..n |-> i - 1]

\* a tick has returned and no call was made since
TickReturned == loop.pc = "idle" /\ last.op = "tick"

(* C18: a tick that has started can always go on, until it has written     *)
(* each of the width * height indices of the scratch buffer exactly once,  *)
(* in row-major order, and flipped the selector; and tick can be called    *)
(* again after it.                                                         *)
C18_TickCompletes ==
    /\ InTick => ENABLED (TickStep \/ TickEnd)
    /\ InTick => loop.writes = RowMajor(Len(loop.writes))
    /\ TickReturned =>
          /\ loop.writes = RowMajor(Len(Cur))
          /\ ProductIs(width, height, Len(loop.writes))
          /\ ENABLED TickBegin(nops + 1)

\* C18 on the grids whose width * height fits u32
C18_TickCompletesNoWrap ==
    ~u32_overflows(width, height, 0) => C18_TickCompletes

\* a tick that has started returns, on the grids whose width * height fits
\* u32
C18_TickReturnsNoWrap ==
    (InTick /\ ~u32_overflows(width, height, 0)) ~> TickReturned

-----------------------------------------------------------------------------
\* the canonical rule of Conway's Game of Life: an Alive cell survives with
\* exactly 2 or 3 live neighbours, a Dead cell becomes Alive with exactly 3,
\* every other cell is Dead
Conway(state, n) ==
    IF (state = Alive /\ n \in {2, 3}) \/ (state = Dead /\ n = 3)
    THEN Alive
    ELSE Dead

\* the pairs (state, live-neighbour count) on which the match of tick and
\* the canonical rule give different next states
RuleDifferences ==
    { p \in Cell \X (0..8) : next_cell(p[1], p[2]) # Conway(p[1], p[2]) }

(* C19, as claimed: the rule a tick has applied is not the canonical one:  *)
(* for at least one pair (state, live-neighbour count in 0 .. 8) the next  *)
(* state tick gives differs from the canonical Conway rule's.              *)
C19_RuleDiffersFromConway ==
    (last.op = "tick" /\ status = "ok") => RuleDifferences # {}

(* C19, amended: for every pair (state, live-neighbour count in 0 .. 8)    *)
(* the next state tick gives is the canonical Conway rule's, and every     *)
(* tick that returns leaves in every cell the canonical rule's value for   *)
(* the cell and the count live_neighbor_count returned for it.             *)
C19_RuleIsConway ==
    [][ (last'.op = "tick" /\ status' = "ok") =>
            /\ RuleDifferences = {}
            /\ \A r \in 0..(height - 1), c \in 0..(width - 1) :
                  CellAt(cells'[cells_idx' + 1], width, r, c) =
                      Conway(CellAt(Cur, width, r, c),
                             live_neighbor_count(width, height, Cur, r, c).count) ]_vars

\* a tick has returned in which an Alive cell with fewer than 2 live
\* neighbours and one with more than 3 died, one with 2 or 3 survived, a
\* Dead cell with 3 was born and one with 2 stayed Dead
C19_Witness ==
    /\ status = "ok"
    /\ last.op = "tick"
    /\ width = 8
    /\ height = 8
    /\ \A want \in { <<Alive, {0, 1}, Dead>>, <<Alive, {4, 5, 6, 7, 8}, Dead>>,
                     <<Alive, {2, 3}, Alive>>, <<Dead, {3}, Alive>>,
                     <<Dead, {2}, Dead>> } :
          \E r \in 0..7, c \in 0..7 :
              /\ CellAt(Scratch, 8, r, c) = want[1]
              /\ ToroidalCount(Scratch, 8, 8, r, c) \in want[2]
              /\ CellAt(Cur, 8, r, c) = want[3]

====
